---- MODULE Spec2Model ----
(***************************************************************************)
(* Model of pet_adoption_app.py: the registration / login / logout flow    *)
(* over the "users" node of the remote store, the per-browser-session      *)
(* st.session_state["logged_in_user"], and the pet / comment records that   *)
(* authenticated sessions write.                                            *)
(*                                                                         *)
(* Each Streamlit script run that handles one widget event is one action.   *)
(* register() makes two separate store calls (the existence read on line    *)
(* 111 and the write on line 115), so it is two steps, RegisterCheck and    *)
(* RegisterWrite, between which other sessions may run.                     *)
(***************************************************************************)
EXTENDS Naturals, Sequences, FiniteSets, TLC

VARIABLES
    users,            \* the store's "users" node: username -> record
    pets,             \* the store's "pets" node, in push order
    comments,         \* the store's "comments" node, in push order
    logged_in_user,   \* st.session_state["logged_in_user"] of each session
    pending,          \* a register() run between its read and its write
    out               \* what the last script run rendered

vars == <<users, pets, comments, logged_in_user, pending, out>>

----------------------------------------------------------------------------
(* Bounds of the model. *)

MaxPets == 2
MaxComments == 1
NumSalts == 2

(* Browser sessions; each has its own st.session_state. *)
Sessions == {"tabA", "tabB"}

(* What the text inputs may hold.  "" is a text_input left empty. *)
Usernames == {"", "jane", "bob"}
FullNames == {"Jane Doe", "John"}
(* Passwords are strings, written as sequences of character codes. *)
Passwords == {<<1, 2>>, <<2>>}
Salts == 1..NumSalts
Texts == {"so cute"}

(* Python's None. *)
None == [none |-> TRUE]

----------------------------------------------------------------------------
(* Password hashing (bcrypt). *)

(* bcrypt.hashpw: the result carries the algorithm prefix and the salt in  *)
(* front of a digest that is a function of the password and the salt.      *)
hashpw(password, salt) ==
    <<0, salt>> \o [i \in 1..Len(password) |-> password[i] + salt]

(* A variant of hash_password that stores the password as typed. *)
hash_password_plain(password, salt) == password

(* bcrypt.gensalt() picks the salt; the caller of hash_password supplies   *)
(* the one that was drawn.                                                  *)
hash_password(password, salt) == hashpw(password, salt)

(* A variant of verify_password that hashes the typed password with a salt *)
(* of its own instead of the one stored in the hash.                        *)
verify_password_own_salt(password, hashed) == hashpw(password, 1) = hashed

(* bcrypt.checkpw: rehash with the salt stored in the hash and compare.    *)
verify_password(password, hashed) == hashpw(password, hashed[2]) = hashed

----------------------------------------------------------------------------
(* The store's "users" node. *)

(* db.reference("users").child(username): an empty child path is rejected  *)
(* by the client with a ValueError before any request is made.             *)
child_raises(username) == username = ""

(* db.reference("users/<username>").get(): empty path segments are         *)
(* dropped, so an empty username reads the whole "users" node; a missing   *)
(* node reads as None.                                                      *)
users_get(username) ==
    IF username = ""
    THEN IF DOMAIN users = {} THEN None ELSE users
    ELSE IF username \in DOMAIN users THEN users[username] ELSE None

(* users_ref.child(username).set(record) *)
users_set(username, record) ==
    [k \in DOMAIN users \cup {username} |->
        IF k = username THEN record ELSE users[k]]

----------------------------------------------------------------------------
Init ==
    /\ users = [k \in {} |-> None]
    /\ pets = <<>>
    /\ comments = <<>>
    /\ logged_in_user = [s \in Sessions |-> None]
    /\ pending = [s \in Sessions |-> None]
    /\ out = "nothing"

----------------------------------------------------------------------------
(* Authentication. *)

(* A variant of landing that renders the login form whatever the session   *)
(* holds.                                                                    *)
landing_always(s) == pending[s] = None

(* The landing branch of the navigation: login() and register() are only   *)
(* rendered while the session holds no identity, and a script run handles  *)
(* one event at a time.                                                      *)
landing(s) == logged_in_user[s] = None /\ pending[s] = None

(* The logged-in branch of the navigation: the page radio is rendered.     *)
navigation(s) == logged_in_user[s] # None

(* A variant of register_check without the existence read. *)
register_check_no_read(s, full_name, username, password, ok) ==
    IF child_raises(username) \/ ~ok
    THEN [pending |-> pending, out |-> "uncaught exception"]
    ELSE [pending |-> [pending EXCEPT ![s] =
                        [full_name |-> full_name, username |-> username,
                         password |-> password]],
          out |-> out]

(* register(), the submit branch up to the existence check.  ok says       *)
(* whether the store answered the read.  An exception leaves register()    *)
(* uncaught: the function has no try block.                                 *)
register_check(s, full_name, username, password, ok) ==
    IF child_raises(username) \/ ~ok
    THEN [pending |-> pending, out |-> "uncaught exception"]
    ELSE IF users_get(username) # None
    THEN [pending |-> pending, out |-> "username already exists"]
    ELSE [pending |-> [pending EXCEPT ![s] =
                        [full_name |-> full_name, username |-> username,
                         password |-> password]],
          out |-> out]

(* register(), the else branch: hash, write, report.  ok says whether the  *)
(* store accepted the write.                                                *)
register_write(s, salt, ok) ==
    LET form == pending[s]
        hashed_password == hash_password(form.password, salt)
    IN  IF ok
        THEN [users |-> users_set(form.username,
                          [full_name |-> form.full_name,
                           password |-> hashed_password]),
              out |-> "registration successful"]
        ELSE [users |-> users, out |-> "uncaught exception"]

(* login(), the button branch.  ok says whether the store answered.        *)
login(s, username, password, ok) ==
    IF ~ok
    THEN [logged_in_user |-> logged_in_user, out |-> "error logging in"]
    ELSE LET user_ref == users_get(username)
         IN  IF user_ref = None
             THEN [logged_in_user |-> logged_in_user,
                   out |-> "invalid credentials"]
             ELSE IF "password" \notin DOMAIN user_ref
             THEN [logged_in_user |-> logged_in_user,
                   out |-> "error logging in"]
             ELSE IF verify_password(password, user_ref["password"])
             THEN [logged_in_user |-> [logged_in_user EXCEPT ![s] =
                       [username |-> username,
                        full_name |-> user_ref["full_name"]]],
                   out |-> "welcome"]
             ELSE [logged_in_user |-> logged_in_user,
                   out |-> "invalid credentials"]

(* A variant of logout that deletes the session key, which fails when the  *)
(* session holds no identity.                                                *)
logout_delete(s) ==
    IF logged_in_user[s] = None
    THEN [logged_in_user |-> logged_in_user, out |-> "uncaught exception"]
    ELSE [logged_in_user |-> [logged_in_user EXCEPT ![s] = None],
          out |-> "logged out"]

(* logout() *)
logout(s) ==
    [logged_in_user |-> [logged_in_user EXCEPT ![s] = None],
     out |-> "logged out"]

RegisterCheck(s, full_name, username, password, ok) ==
    /\ landing(s)
    /\ LET r == register_check(s, full_name, username, password, ok)
       IN  pending' = r.pending /\ out' = r.out
    /\ UNCHANGED <<users, pets, comments, logged_in_user>>

RegisterWrite(s, salt, ok) ==
    /\ pending[s] # None
    /\ LET r == register_write(s, salt, ok)
       IN  users' = r.users /\ out' = r.out
    /\ pending' = [pending EXCEPT ![s] = None]
    /\ UNCHANGED <<pets, comments, logged_in_user>>

Login(s, username, password, ok) ==
    /\ landing(s)
    /\ LET r == login(s, username, password, ok)
       IN  logged_in_user' = r.logged_in_user /\ out' = r.out
    /\ UNCHANGED <<users, pets, comments, pending>>

Logout(s) ==
    /\ navigation(s)
    /\ LET r == logout(s)
       IN  logged_in_user' = r.logged_in_user /\ out' = r.out
    /\ UNCHANGED <<users, pets, comments, pending>>

----------------------------------------------------------------------------
(* Pets and comments. *)

(* db.reference("pets").push(pet_data): the store generates a fresh key;   *)
(* here the key is the record's position.                                   *)
pets_push(pet_data) == Append(pets, pet_data)

(* db.reference("pets/<pet_id>").update({"adopted": True}) *)
pets_update_adopted(pet_id) == [pets EXCEPT ![pet_id].adopted = TRUE]

(* A variant of pet_data that records the owner's display name. *)
pet_data_full_name(s) ==
    [adopted |-> FALSE, owner |-> logged_in_user[s].full_name]

(* add_pet(): the record written for the submitting session. *)
pet_data(s) == [adopted |-> FALSE, owner |-> logged_in_user[s].username]

(* add_pet(), the submit branch.  ok says whether the store took the push. *)
add_pet(s, ok) ==
    IF ok
    THEN [pets |-> pets_push(pet_data(s)), out |-> "pet added"]
    ELSE [pets |-> pets, out |-> "failed to add pet"]

(* view_pets(): the pets the loop renders for session s. *)
listed(s, show_my_pets) ==
    {pet_id \in DOMAIN pets :
        /\ ~(show_my_pets /\ pets[pet_id].owner # logged_in_user[s].username)
        /\ ~(~show_my_pets /\ pets[pet_id].adopted)}

(* A variant of adopt_button that shows the button to every viewer. *)
adopt_button_any_viewer(s, show_my_pets, pet_id) ==
    /\ pet_id \in listed(s, show_my_pets)
    /\ ~pets[pet_id].adopted

(* view_pets(): whether the "Mark as Adopted" button is rendered. *)
adopt_button(s, show_my_pets, pet_id) ==
    /\ pet_id \in listed(s, show_my_pets)
    /\ pets[pet_id].owner = logged_in_user[s].username
    /\ ~pets[pet_id].adopted

(* mark_as_adopted().  ok says whether the store took the update. *)
mark_as_adopted(pet_id, ok) ==
    IF ok
    THEN [pets |-> pets_update_adopted(pet_id), out |-> "marked as adopted"]
    ELSE [pets |-> pets, out |-> "failed to mark as adopted"]

(* add_comment() *)
add_comment(s, pet_id, comment_text) ==
    IF logged_in_user[s] # None
    THEN [comments |-> Append(comments,
                         [pet_id |-> pet_id,
                          commenter |-> logged_in_user[s].username,
                          text |-> comment_text]),
          out |-> "nothing"]
    ELSE [comments |-> comments, out |-> "must be logged in"]

AddPet(s, ok) ==
    /\ navigation(s)
    /\ Len(pets) < MaxPets
    /\ LET r == add_pet(s, ok)
       IN  pets' = r.pets /\ out' = r.out
    /\ UNCHANGED <<users, comments, logged_in_user, pending>>

MarkAsAdopted(s, show_my_pets, pet_id, ok) ==
    /\ navigation(s)
    /\ adopt_button(s, show_my_pets, pet_id)
    /\ LET r == mark_as_adopted(pet_id, ok)
       IN  pets' = r.pets /\ out' = r.out
    /\ UNCHANGED <<users, comments, logged_in_user, pending>>

AddComment(s, show_my_pets, pet_id, comment_text) ==
    /\ navigation(s)
    /\ pet_id \in listed(s, show_my_pets)
    /\ Len(comments) < MaxComments
    /\ LET r == add_comment(s, pet_id, comment_text)
       IN  comments' = r.comments /\ out' = r.out
    /\ UNCHANGED <<users, pets, logged_in_user, pending>>

----------------------------------------------------------------------------
(* The account flow: registration, login, logout. *)
Next ==
    \/ \E s \in Sessions, full_name \in FullNames, username \in Usernames,
          password \in Passwords, ok \in BOOLEAN :
          RegisterCheck(s, full_name, username, password, ok)
    \/ \E s \in Sessions, salt \in Salts, ok \in BOOLEAN :
          RegisterWrite(s, salt, ok)
    \/ \E s \in Sessions, username \in Usernames, password \in Passwords,
          ok \in BOOLEAN :
          Login(s, username, password, ok)
    \/ \E s \in Sessions : Logout(s)

Spec == Init /\ [][Next]_vars

(* The listing flow over a store that already holds two accounts (the      *)
(* store outlives the process): login, logout, adding pets, marking them   *)
(* adopted, commenting.                                                     *)
InitPets ==
    /\ users = [k \in {"jane", "bob"} |->
                  IF k = "jane"
                  THEN [full_name |-> "Jane Doe",
                        password |-> hash_password(<<1, 2>>, 1)]
                  ELSE [full_name |-> "John",
                        password |-> hash_password(<<2>>, 1)]]
    /\ pets = <<>>
    /\ comments = <<>>
    /\ logged_in_user = [s \in Sessions |-> None]
    /\ pending = [s \in Sessions |-> None]
    /\ out = "nothing"

NextPets ==
    \/ \E s \in Sessions, username \in Usernames, password \in Passwords,
          ok \in BOOLEAN :
          Login(s, username, password, ok)
    \/ \E s \in Sessions : Logout(s)
    \/ \E s \in Sessions, ok \in BOOLEAN : AddPet(s, ok)
    \/ \E s \in Sessions, show_my_pets \in BOOLEAN, pet_id \in DOMAIN pets,
          ok \in BOOLEAN :
          MarkAsAdopted(s, show_my_pets, pet_id, ok)
    \/ \E s \in Sessions, show_my_pets \in BOOLEAN, pet_id \in DOMAIN pets,
          comment_text \in Texts :
          AddComment(s, show_my_pets, pet_id, comment_text)

SpecPets == InitPets /\ [][NextPets]_vars

----------------------------------------------------------------------------
(* Properties. *)

(* The record register() writes for a form and a salt. *)
Registered(full_name, password, salt) ==
    [full_name |-> full_name, password |-> hash_password(password, salt)]

(* C1: a registration that succeeds writes the form's full name and the    *)
(* hash of its password under its username, and while that record stands a *)
(* login with the same username and password, from a session that holds no *)
(* identity, is welcomed and leaves the session holding exactly that       *)
(* username and that full name.                                             *)
C1_RegisterThenLogin ==
    /\ \A s \in Sessions, salt \in Salts :
          pending[s] # None =>
             LET form == pending[s]
                 r == register_write(s, salt, TRUE)
             IN  /\ r.out = "registration successful"
                 /\ form.username \in DOMAIN r.users
                 /\ r.users[form.username] =
                       Registered(form.full_name, form.password, salt)
    /\ \A username \in DOMAIN users, full_name \in FullNames,
          password \in Passwords, salt \in Salts, s \in Sessions :
          (/\ users[username] = Registered(full_name, password, salt)
           /\ landing(s)) =>
             LET r == login(s, username, password, TRUE)
             IN  /\ r.out = "welcome"
                 /\ r.logged_in_user[s] =
                       [username |-> username, full_name |-> full_name]

C1_Witness ==
    /\ out = "welcome"
    /\ \E s \in Sessions :
          /\ logged_in_user[s] # None
          /\ logged_in_user[s].username \in DOMAIN users
          /\ logged_in_user[s].full_name =
                users[logged_in_user[s].username].full_name

(* C2: a registration whose username is already a key of the store, when   *)
(* the store answers, reports "username already exists", schedules no      *)
(* write, and leaves the users node as it was.                              *)
C2_RegisterConflict ==
    [][\A s \in Sessions, full_name \in FullNames,
          username \in DOMAIN users, password \in Passwords :
          RegisterCheck(s, full_name, username, password, TRUE) =>
             /\ out' = "username already exists"
             /\ pending'[s] = None
             /\ users' = users]_vars

C2_Witness ==
    /\ out = "username already exists"
    /\ DOMAIN users # {}
    /\ \A s \in Sessions : pending[s] = None

(* C3 as stated: whenever the store answers, a login with a username that *)
(* is no key of the store, or with a password the stored hash does not     *)
(* verify, reports "invalid credentials" and leaves every session as it    *)
(* was.                                                                     *)
C3_UniformLoginFailure ==
    [][\A s \in Sessions, username \in Usernames, password \in Passwords :
          (/\ Login(s, username, password, TRUE)
           /\ \/ username \notin DOMAIN users
              \/ ~verify_password(password, users[username].password)) =>
             /\ out' = "invalid credentials"
             /\ logged_in_user' = logged_in_user]_vars

(* The same statement for usernames that are not empty: the part of C3     *)
(* the code does satisfy.                                                   *)
LoginFailureNonEmptyUsername ==
    [][\A s \in Sessions, username \in Usernames \ {""},
          password \in Passwords :
          (/\ Login(s, username, password, TRUE)
           /\ \/ username \notin DOMAIN users
              \/ ~verify_password(password, users[username].password)) =>
             /\ out' = "invalid credentials"
             /\ logged_in_user' = logged_in_user]_vars

(* C4: logout, run from any session state (holding an identity or not),    *)
(* leaves the session without identity, touches no other session, reports  *)
(* "logged out" and no error; the Logout step leaves the store unchanged.  *)
C4_LogoutClears ==
    [][\A s \in Sessions :
          /\ LET r == logout(s)
             IN  /\ r.logged_in_user[s] = None
                 /\ \A t \in Sessions \ {s} :
                       r.logged_in_user[t] = logged_in_user[t]
                 /\ r.out = "logged out"
          /\ Logout(s) =>
                /\ logged_in_user'[s] = None
                /\ logout(s).logged_in_user = logged_in_user'
                /\ users' = users /\ pets' = pets /\ comments' = comments]_vars

C4_Witness ==
    /\ out = "logged out"
    /\ \E s \in Sessions : logged_in_user[s] = None
    /\ DOMAIN users # {}

(* C5 as stated: a record of the users node, once written, keeps its full  *)
(* name and its password hash in every later state.                         *)
C5_RecordNeverChanges ==
    [][\A username \in DOMAIN users :
          /\ username \in DOMAIN users'
          /\ users'[username] = users[username]]_vars

(* C6: a session goes from no identity to an identity only by its own      *)
(* welcomed login, an identity changes only by the session's own logout,   *)
(* and then to no identity; no login step of a session exists while it     *)
(* holds an identity.                                                       *)
C6_SessionStateMachine ==
    [][\A s \in Sessions :
          /\ (logged_in_user[s] = None /\ logged_in_user'[s] # None) =>
                /\ out' = "welcome"
                /\ \E username \in Usernames, password \in Passwords :
                      Login(s, username, password, TRUE)
          /\ (logged_in_user[s] # None
                /\ logged_in_user'[s] # logged_in_user[s]) =>
                /\ logged_in_user'[s] = None
                /\ Logout(s)
          /\ logged_in_user[s] # None =>
                \A username \in Usernames, password \in Passwords,
                   ok \in BOOLEAN : ~Login(s, username, password, ok)]_vars

C6_Witness ==
    /\ out = "logged out"
    /\ \E s, t \in Sessions :
          logged_in_user[s] # None /\ logged_in_user[t] = None

(* C7: a session's identity is absent or a record of exactly a username    *)
(* and a full name; every stored password is a bcrypt hash of some         *)
(* password, and the hash register() writes verifies the submitted         *)
(* password without being equal to it.                                      *)
C7_NoRawPassword ==
    /\ \A s \in Sessions :
          \/ logged_in_user[s] = None
          \/ /\ DOMAIN logged_in_user[s] = {"username", "full_name"}
             /\ logged_in_user[s].username \in Usernames
             /\ logged_in_user[s].full_name \in FullNames
    /\ \A username \in DOMAIN users :
          /\ users[username].password \notin Passwords
          /\ \E password \in Passwords, salt \in Salts :
                users[username].password = hash_password(password, salt)
    /\ \A s \in Sessions, salt \in Salts :
          pending[s] # None =>
             LET form == pending[s]
                 stored == register_write(s, salt, TRUE).users[form.username]
             IN  /\ stored.password # form.password
                 /\ verify_password(form.password, stored.password)

C7_Witness ==
    /\ DOMAIN users = {"jane", "bob"}
    /\ \E s \in Sessions : logged_in_user[s] # None

(* The messages the script itself renders with st.error / st.success. *)
InlineMessages ==
    {"username already exists", "registration successful", "welcome",
     "invalid credentials", "error logging in", "logged out"}

(* C8 as stated: a script run in which the store call fails, be it the     *)
(* read of login, the read of register or the write of register, renders   *)
(* an inline message of its own and leaves sessions and store unchanged.   *)
C8_StoreFailureCaught ==
    [][\A s \in Sessions :
          (\/ \E username \in Usernames \ {""}, password \in Passwords :
                 \/ Login(s, username, password, FALSE)
                 \/ \E full_name \in FullNames :
                       RegisterCheck(s, full_name, username, password, FALSE)
           \/ \E salt \in Salts : RegisterWrite(s, salt, FALSE)) =>
             /\ out' \in InlineMessages
             /\ logged_in_user' = logged_in_user
             /\ users' = users]_vars

(* The part of C8 the code does satisfy: login's try block turns a failed  *)
(* read into "error logging in", and no failed call changes a session or   *)
(* the store.                                                               *)
StoreFailureChangesNothing ==
    [][\A s \in Sessions :
          /\ \A username \in Usernames, password \in Passwords :
                Login(s, username, password, FALSE) =>
                   out' = "error logging in"
          /\ (\/ \E username \in Usernames, password \in Passwords :
                    \/ Login(s, username, password, FALSE)
                    \/ \E full_name \in FullNames :
                          RegisterCheck(s, full_name, username, password,
                                        FALSE)
              \/ \E salt \in Salts : RegisterWrite(s, salt, FALSE)) =>
                /\ logged_in_user' = logged_in_user
                /\ users' = users]_vars

(* C9: a pet is pushed not adopted and keeps its owner; its adopted flag   *)
(* turns true only in a mark-as-adopted step of a session whose username   *)
(* is the pet's owner, never turns false again, and an adopted pet is in   *)
(* no session's Home listing.                                               *)
C9_AdoptOwnerOnlyOneWay ==
    [][/\ \A pet_id \in DOMAIN pets :
             /\ pet_id \in DOMAIN pets'
             /\ pets'[pet_id].owner = pets[pet_id].owner
             /\ pets[pet_id].adopted => pets'[pet_id].adopted
             /\ (~pets[pet_id].adopted /\ pets'[pet_id].adopted) =>
                   \E s \in Sessions, show_my_pets \in BOOLEAN :
                      /\ logged_in_user[s] # None
                      /\ logged_in_user[s].username = pets[pet_id].owner
                      /\ MarkAsAdopted(s, show_my_pets, pet_id, TRUE)
       /\ \A pet_id \in DOMAIN pets' \ DOMAIN pets : ~pets'[pet_id].adopted
       /\ \A pet_id \in DOMAIN pets', s \in Sessions :
             (pets'[pet_id].adopted /\ logged_in_user'[s] # None) =>
                pet_id \notin listed(s, FALSE)']_vars

C9_Witness ==
    /\ out = "marked as adopted"
    /\ \E pet_id \in DOMAIN pets, s \in Sessions :
          /\ pets[pet_id].adopted
          /\ logged_in_user[s] # None
          /\ logged_in_user[s].username # pets[pet_id].owner

====
